---- MODULE Spec2Model ----
(***************************************************************************)
(* Model of the CForm component                                            *)
(* (src/packages/ui/src/components/form/CForm.tsx).                        *)
(*                                                                         *)
(* The component is a React function component.  Every render runs the     *)
(* function body again: it creates a fresh `validators` object, reads the  *)
(* current `errors` from the useState hook and the current `value` prop,   *)
(* and builds new closures (addValidator, clearAll, clearField,            *)
(* validateField, validateAll) over them.  The closures of the current     *)
(* render are the ones handed out through the context and the imperative   *)
(* handle.  An async call that is suspended at an `await` keeps the        *)
(* closure of the render it was started in.                                *)
(***************************************************************************)
EXTENDS Integers, Sequences, FiniteSets, TLC

\* ---------------------------------------------------------------- bounds
\* The addValidator calls, validate calls and re-renders of a behaviour,
\* taken together.
MaxOps == 4

\* ---------------------------------------------------------------- inputs
\* The field names the form is used with.
Fields == {"a", "b"}
\* The `value` objects the owner passes: an empty string, a string that is
\* no e-mail address and an e-mail address, each in some field.  The owner
\* passes a new object to change the value (a re-render); an object is not
\* written after it was passed.
Values ==
  {[a |-> "", b |-> "bad"], [a |-> "bad", b |-> "a@b.com"],
   [a |-> "a@b.com", b |-> ""]}

\* ---------------------------------------------------------------- values
\* The JS value `false` (a passing rule, a cleared entry).
False == "false"
\* A key that is not present in an Errors object.
Absent == "absent"
Messages == {"required", "email"}
\* A rule that throws when it is called, and the settled state of a promise
\* that was rejected.
Thrown == "thrown"
Rejected == "rejected"

\* JS truthiness of a rule's result: `if (error)`.
Truthy(x) == x # False /\ x # ""

\* A Validator: a function of the field's value to false or a message.
\* "required" fails on the empty string, "isEmail" on what is no address.
\* "throws" throws when called, "rejects" returns a promise that rejects.
RuleResult(rule, v) ==
  IF rule = "required" THEN (IF v = "" THEN "required" ELSE False)
  ELSE IF rule = "throws" THEN Thrown
  ELSE IF rule = "rejects" THEN Rejected
  ELSE (IF v = "a@b.com" THEN False ELSE "email")

\* The rule lists field components register: none, one rule, two rules.
RuleLists == {<<>>, <<"required">>, <<"required", "isEmail">>}
\* Rule lists with a rule that fails unexpectedly ahead of another rule.
ThrowingLists == {<<"required">>, <<"throws", "required">>, <<"rejects", "isEmail">>}

\* ---------------------------------------------------------------- Errors
\* An Errors object: a mapping of field names to false | string; a field
\* without a key maps to Absent.  useState<Errors>() starts undefined.
EmptyErrors == [f \in Fields |-> Absent]
Undefined == [defined |-> FALSE, map |-> EmptyErrors]
Defined(m) == [defined |-> TRUE, map |-> m]
\* `{...errors}`: spreading undefined yields no keys.
Spread(e) == e.map

\* ------------------------------------------------------------ Validators
\* A Validators object: string keys in insertion order, each with its list.
EmptyValidators == <<>>
Has(obj, f) == \E i \in DOMAIN obj : obj[i].field = f
Keys(obj) == [i \in DOMAIN obj |-> obj[i].field]
\* validators[field]; a missing key (undefined) has no rules to run.
Get(obj, f) ==
  IF Has(obj, f)
  THEN (CHOOSE e \in {obj[i] : i \in DOMAIN obj} : e.field = f).rules
  ELSE <<>>
\* A faulty variant of Put that appends to the list the field has; C7
\* tells it from Put.
PutAppend(obj, f, rs) ==
  IF Has(obj, f)
  THEN [i \in DOMAIN obj |->
          IF obj[i].field = f THEN [field |-> f, rules |-> obj[i].rules \o rs]
          ELSE obj[i]]
  ELSE Append(obj, [field |-> f, rules |-> rs])
\* validators[field] = newValidator
Put(obj, f, rs) ==
  IF Has(obj, f)
  THEN [i \in DOMAIN obj |->
          IF obj[i].field = f THEN [field |-> f, rules |-> rs] ELSE obj[i]]
  ELSE Append(obj, [field |-> f, rules |-> rs])

\* ----------------------------------------------------------------- state
VARIABLES
  validators,   \* the `validators` object of the current render
  errors,       \* `errors` as read from useState by the current render
  errorsState,  \* the hook's state: the argument of the latest setErrors
  value,        \* the `value` prop of the current render
  calls,        \* async validateField / validateAll calls suspended at await
  nextId,       \* number of validate calls started so far
  nAdds,        \* number of addValidator calls so far
  nRenders,     \* number of re-renders so far
  lastWrite,    \* history: the call that issued the latest setErrors
  lastWriter,   \* history: per field, the kind of operation that last set it
  ran,          \* history: per field, the messages its rules have returned
  rejected      \* history: the validate calls whose promise was rejected

vars == <<validators, errors, errorsState, value, calls, nextId, nAdds,
          nRenders, lastWrite, lastWriter, ran, rejected>>

NoSeen == [f \in Fields |-> <<>>]

\* lastWrite: the operation that wrote, its field, the id of the validate
\* call (0 for clearAll and clearField), how many validate calls had been
\* started when it wrote, whether it replaced the different result of a
\* validateAll call started after it, and whether it is a validateAll call
\* that left a field without the entry the field had.
NoWrite ==
  [op |-> "none", field |-> "a", id |-> 0, started |-> 0, stale |-> FALSE,
   wiped |-> FALSE]

\* Another operation runs while the calls in cs are in flight.
Touch(cs) == {[c EXCEPT !.overlap = TRUE] : c \in cs}

Init ==
  /\ validators = EmptyValidators
  /\ errors = Undefined
  /\ errorsState = Undefined
  /\ value \in Values
  /\ calls = {}
  /\ nextId = 0
  /\ nAdds = 0
  /\ nRenders = 0
  /\ lastWrite = NoWrite
  /\ lastWriter = [f \in Fields |-> "none"]
  /\ ran = [f \in Fields |-> {}]
  /\ rejected = {}

\* ------------------------------------------------------------ operations
\* addValidator (lines 85-87)
addValidator(field, newValidator) ==
  /\ nAdds + nextId + nRenders < MaxOps
  /\ nAdds' = nAdds + 1
  /\ validators' = Put(validators, field, newValidator)
  /\ calls' = Touch(calls)
  /\ UNCHANGED <<errors, errorsState, value, nextId, nRenders, lastWrite,
                 lastWriter, ran, rejected>>

\* clearAll (lines 91-93)
clearAll ==
  /\ errorsState' = Defined(EmptyErrors)
  /\ lastWrite' = [NoWrite EXCEPT !.op = "clearAll", !.started = nextId]
  /\ lastWriter' = [f \in Fields |-> "clear"]
  /\ calls' = Touch(calls)
  /\ UNCHANGED <<validators, errors, value, nextId, nAdds, nRenders, ran,
                 rejected>>

\* A faulty variant of clearField that also empties value[field]; C9 tells
\* it from clearField.
clearFieldResetsValue(field) ==
  /\ errorsState' = Defined([Spread(errors) EXCEPT ![field] = False])
  /\ lastWrite' = [NoWrite EXCEPT !.op = "clearField", !.field = field,
                                  !.started = nextId]
  /\ lastWriter' = [lastWriter EXCEPT ![field] = "clear"]
  /\ calls' = Touch(calls)
  /\ value' = [value EXCEPT ![field] = ""]
  /\ UNCHANGED <<validators, errors, nextId, nAdds, nRenders, ran, rejected>>
\* clearField (lines 97-102)
clearField(field) ==
  /\ errorsState' = Defined([Spread(errors) EXCEPT ![field] = False])
  /\ lastWrite' = [NoWrite EXCEPT !.op = "clearField", !.field = field,
                                  !.started = nextId]
  /\ lastWriter' = [lastWriter EXCEPT ![field] = "clear"]
  /\ calls' = Touch(calls)
  /\ UNCHANGED <<validators, errors, value, nextId, nAdds, nRenders, ran,
                 rejected>>

\* ------------------------------------------------------------ async calls
\* The frame of an async call: its closure (validators, errors, value), its
\* position in the loops and its locals.  `live` says that the closure's
\* validators object is still the current render's (and can still be
\* written by addValidator); after a re-render the call keeps the object as
\* it was left.  validateField reads `validators` only at line 105, before
\* it suspends, and validateAll's local `errors` shadows the state, so the
\* frames leave those out.  `failed` says that an exception left the
\* function.  seen (the rule lists the call has read) and overlap are
\* history.
NewCall(op, field) ==
  [id |-> nextId + 1, op |-> op, field |-> field,
   live |-> op = "validateAll", validators |-> EmptyValidators,
   errors |-> IF op = "validateAll" THEN Undefined ELSE errors,
   value |-> value,
   keys |-> <<>>, rest |-> <<>>, awaiting |-> False,
   acc |-> EmptyErrors, done |-> FALSE, failed |-> FALSE,
   seen |-> NoSeen, overlap |-> calls # {}]

\* The validators object a call's closure refers to.
ValidatorsOf(c) == IF c.live THEN validators ELSE c.validators

\* `await rule(value[field])` (lines 109, 127) up to the suspension: the
\* call of the first rule of rules.  A rule that throws ends the function;
\* there is no try around the call.
Invoke(c, rules) ==
  LET r == RuleResult(Head(rules), c.value[c.field])
  IN IF r = Thrown
     THEN [c EXCEPT !.failed = TRUE, !.rest = Tail(rules)]
     ELSE [c EXCEPT !.awaiting = r, !.rest = Tail(rules)]

\* validateField, lines 105-109: read the rule list, call the first rule.
validateFieldStart(c, vobj) ==
  LET fieldRules == Get(vobj, c.field)
      c1 == [c EXCEPT !.seen[c.field] = fieldRules]
  IN IF fieldRules = <<>>
     THEN [c1 EXCEPT !.done = TRUE]
     ELSE Invoke(c1, fieldRules)

\* A faulty variant of validateFieldStep without the `break`: a later
\* failure replaces an earlier one; C2 tells it from validateFieldStep.
validateFieldStepNoBreak(c) ==
  IF c.rest = <<>>
  THEN [c EXCEPT !.acc[c.field] = IF Truthy(c.awaiting) THEN c.awaiting ELSE @,
                 !.done = TRUE]
  ELSE [c EXCEPT !.acc[c.field] = IF Truthy(c.awaiting) THEN c.awaiting ELSE @,
                 !.awaiting = RuleResult(Head(c.rest), c.value[c.field]),
                 !.rest = Tail(c.rest)]
\* A faulty variant of validateFieldStep that starts the list again when
\* its last rule passed; C16 tells it from validateFieldStep.
validateFieldStepAgain(c) ==
  IF Truthy(c.awaiting)
  THEN [c EXCEPT !.acc[c.field] = c.awaiting, !.done = TRUE]
  ELSE IF c.rest = <<>>
       THEN Invoke(c, c.seen[c.field])
       ELSE Invoke(c, c.rest)
\* validateField, lines 108-115, resumed after `await rule(value[field])`.
\* The await of a rejected promise throws.
validateFieldStep(c) ==
  IF c.awaiting = Rejected
  THEN [c EXCEPT !.failed = TRUE]
  ELSE IF Truthy(c.awaiting)
  THEN [c EXCEPT !.acc[c.field] = c.awaiting, !.done = TRUE]
  ELSE IF c.rest = <<>>
       THEN [c EXCEPT !.done = TRUE]
       ELSE Invoke(c, c.rest)

\* A faulty variant of HasError that starts undefined, so that a field
\* without a failing rule gets no entry; C15 tells it from HasError.
HasErrorUndefined(c) == c.acc[c.field]
\* hasError at line 116: false unless a rule failed.
HasError(c) == IF c.acc[c.field] = Absent THEN False ELSE c.acc[c.field]

\* A faulty variant of validateAllEnter that starts every visited field
\* with the entry false; C6 tells it from validateAllEnter.
RECURSIVE validateAllEnterInit(_, _)
validateAllEnterInit(c, vobj) ==
  IF c.keys = <<>>
  THEN [c EXCEPT !.done = TRUE]
  ELSE LET field == Head(c.keys)
           rules == Get(vobj, field)
           c1 == [c EXCEPT !.keys = Tail(c.keys), !.field = field,
                           !.seen[field] = rules, !.acc[field] = False]
       IN IF rules = <<>>
          THEN validateAllEnterInit(c1, vobj)
          ELSE [c1 EXCEPT !.awaiting = RuleResult(Head(rules), c.value[field]),
                          !.rest = Tail(rules)]
\* validateAll, lines 124-127: the head of the outer loop.  Takes the next
\* key, reads its rule list and calls the first rule; a key with an empty
\* list is passed over; with no keys left the loop ends.  `for ... in`
\* visits the keys the object had when the loop started, in insertion
\* order (c.keys); the rule list of a key is read when its turn comes.
RECURSIVE validateAllEnter(_, _)
validateAllEnter(c, vobj) ==
  IF c.keys = <<>>
  THEN [c EXCEPT !.done = TRUE]
  ELSE LET field == Head(c.keys)
           rules == Get(vobj, field)
           c1 == [c EXCEPT !.keys = Tail(c.keys), !.field = field,
                           !.seen[field] = rules]
       IN IF rules = <<>>
          THEN validateAllEnter(c1, vobj)
          ELSE Invoke(c1, rules)

\* A faulty variant of validateAllStep without the `break`: it runs the
\* rest of a field's rules after one failed; C11 tells it from
\* validateAllStep.
validateAllStepNoBreak(c, vobj) ==
  IF c.rest = <<>>
  THEN validateAllEnter(
         [c EXCEPT !.acc[c.field] = IF Truthy(c.awaiting) THEN c.awaiting ELSE @],
         vobj)
  ELSE [c EXCEPT !.acc[c.field] = IF Truthy(c.awaiting) THEN c.awaiting ELSE @,
                 !.awaiting = RuleResult(Head(c.rest), c.value[c.field]),
                 !.rest = Tail(c.rest)]
\* validateAll, lines 126-133, resumed after `await rule(value[field])`.
\* The await of a rejected promise throws.
validateAllStep(c, vobj) ==
  IF c.awaiting = Rejected
  THEN [c EXCEPT !.failed = TRUE]
  ELSE IF Truthy(c.awaiting)
  THEN validateAllEnter([c EXCEPT !.acc[c.field] = c.awaiting], vobj)
  ELSE IF c.rest = <<>>
       THEN validateAllEnter(c, vobj)
       ELSE Invoke(c, c.rest)

\* A faulty variant of Written in which validateAll merges its results into
\* the current error state; C13 tells it from Written.
WrittenMerged(c) ==
  IF c.op = "validateAll"
  THEN [f \in Fields |-> IF c.acc[f] # Absent THEN c.acc[f]
                         ELSE errorsState.map[f]]
  ELSE [Spread(c.errors) EXCEPT ![c.field] = HasError(c)]
\* The Errors object a finished call passes to setErrors (lines 116-119, 134).
Written(c) ==
  IF c.op = "validateAll" THEN c.acc
  ELSE [Spread(c.errors) EXCEPT ![c.field] = HasError(c)]

\* A variant of Continue that drops the result of a run when a validateAll
\* call started later has written; C10 tells it from Continue.
ContinueUnlessSuperseded(c, others, started) ==
  IF c.failed
  THEN /\ calls' = others
       /\ rejected' = rejected \cup {c.id}
       /\ UNCHANGED <<errorsState, lastWrite, lastWriter>>
  ELSE IF c.done /\ lastWrite.op = "validateAll" /\ lastWrite.id > c.id
  THEN /\ calls' = others
       /\ UNCHANGED <<errorsState, lastWrite, lastWriter, rejected>>
  ELSE IF c.done
  THEN /\ rejected' = rejected
       /\ errorsState' = Defined(Written(c))
       /\ calls' = others
       /\ lastWrite' = [op |-> c.op, field |-> c.field, id |-> c.id,
                        started |-> started, stale |-> FALSE, wiped |-> FALSE]
       /\ lastWriter' = [f \in Fields |->
                           IF c.op = "validateAll" \/ f = c.field
                           THEN "validate" ELSE lastWriter[f]]
  ELSE /\ calls' = others \cup {c}
       /\ UNCHANGED <<errorsState, lastWrite, lastWriter, rejected>>
\* A faulty variant of Continue that stores what a call has gathered when
\* an exception ends it; C12 tells it from Continue.
ContinueStoresPartial(c, others, started) ==
  IF c.failed \/ c.done
  THEN /\ rejected' = IF c.failed THEN rejected \cup {c.id} ELSE rejected
       /\ errorsState' = Defined(Written(c))
       /\ calls' = others
       /\ lastWrite' = [op |-> c.op, field |-> c.field, id |-> c.id,
                        started |-> started, stale |-> FALSE, wiped |-> FALSE]
       /\ lastWriter' = [f \in Fields |->
                           IF c.op = "validateAll" \/ f = c.field
                           THEN "validate" ELSE lastWriter[f]]
  ELSE /\ calls' = others \cup {c}
       /\ UNCHANGED <<errorsState, lastWrite, lastWriter, rejected>>
\* The end of a validate call, or the call suspending again.  An exception
\* leaves the function before its setErrors and rejects the promise the
\* call returned; else the function ends with setErrors (lines 116, 134).
Continue(c, others, started) ==
  IF c.failed
  THEN /\ calls' = others
       /\ rejected' = rejected \cup {c.id}
       /\ UNCHANGED <<errorsState, lastWrite, lastWriter>>
  ELSE IF c.done
  THEN /\ rejected' = rejected
       /\ errorsState' = Defined(Written(c))
       /\ calls' = others
       /\ lastWrite' = [op |-> c.op, field |-> c.field, id |-> c.id,
                        started |-> started,
                        stale |-> /\ lastWrite.op = "validateAll"
                                  /\ lastWrite.id > c.id
                                  /\ Defined(Written(c)) # errorsState,
                        wiped |-> /\ c.op = "validateAll"
                                  /\ \E f \in Fields :
                                       /\ errorsState.map[f] # Absent
                                       /\ Written(c)[f] = Absent]
       /\ lastWriter' = [f \in Fields |->
                           IF c.op = "validateAll" \/ f = c.field
                           THEN "validate" ELSE lastWriter[f]]
  ELSE /\ calls' = others \cup {c}
       /\ UNCHANGED <<errorsState, lastWrite, lastWriter, rejected>>

\* validateField (lines 104-120), up to its first await or, with no rule to
\* run, to its end.
validateField(field) ==
  /\ nAdds + nextId + nRenders < MaxOps
  /\ nextId' = nextId + 1
  /\ Continue(validateFieldStart(NewCall("validateField", field), validators),
              Touch(calls), nextId + 1)
  /\ UNCHANGED <<validators, errors, value, nAdds, nRenders, ran>>

\* validateAll (lines 122-135), up to its first await or, with no rule to
\* run, to its end.
validateAll ==
  /\ nAdds + nextId + nRenders < MaxOps
  /\ nextId' = nextId + 1
  /\ Continue(validateAllEnter([NewCall("validateAll", "a") EXCEPT
                                   !.keys = Keys(validators)], validators),
              Touch(calls), nextId + 1)
  /\ UNCHANGED <<validators, errors, value, nAdds, nRenders, ran>>

\* The awaited rule resolves and the call runs on to its next await or to
\* its setErrors.
Resumed(c) ==
  IF c.op = "validateAll" THEN validateAllStep(c, ValidatorsOf(c))
  ELSE validateFieldStep(c)

resolve(c) ==
  /\ c \in calls
  /\ ran' = [ran EXCEPT ![c.field] =
               IF Truthy(c.awaiting) /\ c.awaiting # Rejected
               THEN @ \cup {c.awaiting} ELSE @]
  /\ Continue(Resumed(c), Touch(calls \ {c}), nextId)
  /\ UNCHANGED <<validators, errors, value, nextId, nAdds, nRenders>>

\* A re-render (a state update being applied, or the owner re-rendering with
\* a new `value`): the function body runs again (lines 66-153).
render(newValue) ==
  /\ nAdds + nextId + nRenders < MaxOps
  /\ nRenders' = nRenders + 1
  /\ validators' = EmptyValidators
  /\ errors' = errorsState
  /\ value' = newValue
  /\ calls' = {[c EXCEPT !.live = FALSE,
                         !.validators = IF c.live THEN validators ELSE @]
               : c \in calls}
  /\ UNCHANGED <<errorsState, nextId, nAdds, lastWrite, lastWriter, ran,
                 rejected>>

Next ==
  \/ \E f \in Fields, rs \in RuleLists : addValidator(f, rs)
  \/ clearAll
  \/ \E f \in Fields : clearField(f)
  \/ \E f \in Fields : validateField(f)
  \/ validateAll
  \/ \E c \in calls : resolve(c)
  \/ \E v \in Values : render(v)

Spec == Init /\ [][Next]_vars

\* The form used with rules that fail unexpectedly.
NextThrows ==
  \/ \E f \in Fields, rs \in ThrowingLists : addValidator(f, rs)
  \/ clearAll
  \/ \E f \in Fields : clearField(f)
  \/ \E f \in Fields : validateField(f)
  \/ validateAll
  \/ \E c \in calls : resolve(c)
  \/ \E v \in Values : render(v)

SpecThrows == Init /\ [][NextThrows]_vars

\* Every rule that was invoked resolves: while calls are suspended, the
\* promise one of them awaits settles and the event loop resumes the call.
Resolves == \E c \in calls : resolve(c)
FairSpec == Spec /\ WF_vars(Resolves)
\* ================================================================ claims
\* The indexes of the rules of a list that fail on v, and what a run of the
\* list records: false, or the message of the first rule that fails.
Failing(rules, v) == {i \in DOMAIN rules : Truthy(RuleResult(rules[i], v))}
Expected(rules, v) ==
  IF Failing(rules, v) = {} THEN False
  ELSE RuleResult(rules[CHOOSE i \in Failing(rules, v) :
                          \A j \in Failing(rules, v) : i <= j], v)

\* In this step the suspended call c runs to its end and calls setErrors.
Completes(c) ==
  /\ c \in calls
  /\ lastWrite'.id = c.id
  /\ lastWrite.id # c.id

\* In this step the suspended call c runs to its end: its frame is gone.
Ends(c) ==
  /\ c \in calls
  /\ \A d \in calls' : d.id # c.id

\* In this step a validateAll call writes without ever suspending.
CompletesAtOnce ==
  /\ nextId' = nextId + 1
  /\ lastWrite'.op = "validateAll"
  /\ lastWrite'.id = nextId'

\* C1: when a validateAll call that no other operation overlapped completes,
\* every field of the registry with a non-empty rule list has an entry: false
\* when all its rules passed, else the message of its first failing rule.
C1_EntryForEveryRuledField ==
  [][\A c \in calls :
       (Completes(c) /\ c.op = "validateAll" /\ ~c.overlap) =>
         \A f \in Fields :
           Get(ValidatorsOf(c), f) # <<>> =>
             errorsState'.map[f] = Expected(Get(ValidatorsOf(c), f), c.value[f])]_vars

\* C2: first failure wins.  When validateAll or validateField completes, a
\* field whose rule list (as the call read it) has a rule that fails on
\* value[field] gets the message of the earliest such rule.
C2_FirstFailureWins ==
  [][\A c \in calls :
       Completes(c) =>
         \A f \in Fields :
           Failing(c.seen[f], c.value[f]) # {} =>
             errorsState'.map[f] = Expected(c.seen[f], c.value[f])]_vars

\* C2 witness: validateAll ran on a field whose two rules both fail and
\* recorded the first rule's message.
C2_Witness ==
  /\ lastWrite.op = "validateAll"
  /\ nRenders = 0
  /\ nAdds = 1
  /\ Get(validators, "a") = <<"required", "isEmail">>
  /\ value["a"] = ""
  /\ errorsState.map["a"] = "required"

\* C3: clearField(f) sets f's entry to false and leaves every other field's
\* entry as it was in the error state just before the call.
C3_ClearFieldFrame ==
  [][\A f \in Fields :
       clearField(f) =>
         /\ errorsState'.map[f] = False
         /\ \A g \in Fields \ {f} : errorsState'.map[g] = errorsState.map[g]]_vars

\* C4: the registry lives for the component's lifetime: the rule lists the
\* handlers read change only when addValidator is called.
C4_RegistryOutlivesRenders ==
  [][(~ \E f \in Fields, rs \in RuleLists : addValidator(f, rs)) =>
       validators' = validators]_vars

\* C5: clearAll writes the empty mapping, and while clearAll is the latest
\* writer the error state stays as it is until an operation invoked after
\* it writes.
C5_EmptyUntilNextOperation ==
  [][/\ clearAll => errorsState' = Defined(EmptyErrors)
     /\ lastWrite.op = "clearAll" =>
          \/ errorsState' = errorsState
          \/ lastWrite'.op \in {"clearAll", "clearField"}
          \/ lastWrite'.id > lastWrite.started]_vars

\* C6: validateAll writes no entry for a field without rules (not in the
\* registry, or registered with an empty list).
C6_NoEntryWithoutRules ==
  [][/\ \A c \in calls :
          (Completes(c) /\ c.op = "validateAll") =>
            \A f \in Fields :
              Resumed(c).seen[f] = <<>> => errorsState'.map[f] = Absent
     /\ CompletesAtOnce =>
          \A f \in Fields :
            Get(validators, f) = <<>> => errorsState'.map[f] = Absent]_vars

\* C6 witness: validateAll ran with field a registered without rules and
\* field b failing; a has no entry.
C6_Witness ==
  /\ lastWrite.op = "validateAll"
  /\ nRenders = 0
  /\ nAdds = 2
  /\ Get(validators, "a") = <<>>
  /\ Has(validators, "a")
  /\ errorsState.map["a"] = Absent
  /\ errorsState.map["b"] \in Messages

\* C7: addValidator replaces the field's rule list by the rules of the call
\* and leaves the other fields' lists as they are.
C7_AddValidatorReplaces ==
  [][\A f \in Fields, rs \in RuleLists :
       addValidator(f, rs) =>
         /\ Has(validators', f)
         /\ Get(validators', f) = rs
         /\ \A g \in Fields \ {f} :
              /\ Has(validators', g) = Has(validators, g)
              /\ Get(validators', g) = Get(validators, g)]_vars

\* C7 witness: addValidator was called twice for the same field of one
\* render; the field holds one list, the rules of one call.
C7_Witness ==
  /\ nAdds = 2
  /\ nRenders = 0
  /\ Len(validators) = 1
  /\ Get(validators, "a") = <<"required">>

\* C8: a field shows a message only if a validate call ran one of its rules
\* and the rule returned that message; a field never validated, or last
\* written by clearField or clearAll, shows none.
C8_MessageOnlyFromValidation ==
  \A f \in Fields :
    errorsState.map[f] \in Messages =>
      /\ errorsState.map[f] \in ran[f]
      /\ lastWriter[f] = "validate"

\* C9: no operation of the form changes the value object: `value` changes
\* only when the owner renders the form with another one, and a suspended
\* call keeps the value of its closure.
C9_ValueReadOnly ==
  [][/\ nRenders' = nRenders => value' = value
     /\ \A c \in calls, d \in calls' : c.id = d.id => d.value = c.value]_vars

\* C9 witness: operations of every kind have run in the first render and
\* the value is the one the owner passed.
C9_Witness ==
  /\ nRenders = 0
  /\ nAdds = 2
  /\ nextId = 2
  /\ lastWrite.op = "clearField"
  /\ calls # {}
  /\ value = [a |-> "", b |-> "bad"]

\* C10: nothing discards a superseded run.  A validateAll call that runs to
\* its end after a validateAll call started later has written still writes
\* its own result.
C10_SupersededRunWrites ==
  [][\A c \in calls :
       (/\ Ends(c)
        /\ c.op = "validateAll"
        /\ lastWrite.op = "validateAll"
        /\ lastWrite.id > c.id) =>
         /\ errorsState' = Defined(Resumed(c).acc)
         /\ lastWrite'.id = c.id]_vars

\* C10 witness: call A started, call B started later, B wrote, and A then
\* replaced B's result by its own, different one.
C10_Witness ==
  /\ lastWrite.op = "validateAll"
  /\ lastWrite.stale
  /\ lastWrite.id = 1
  /\ nextId = 2
  /\ calls = {}

\* The index, in the rule list the call read for its current field, of the
\* rule the suspended call c awaits.
InFlight(c) == Len(c.seen[c.field]) - Len(c.rest)

\* The suspended call d awaits rule i of the list it read for its field.
Awaits(d, i) ==
  LET rules == d.seen[d.field]
  IN /\ i \in 1..Len(rules)
     /\ d.rest = SubSeq(rules, i + 1, Len(rules))
     /\ d.awaiting = RuleResult(rules[i], d.value[d.field])

\* C11: within one validateAll or validateField call the rules run one at a
\* time.  A call has one rule in flight; it starts with the first rule of a
\* list; it invokes a rule only in the step in which the rule it awaited
\* resolves; within a field it invokes the next rule of the list, and only
\* when the awaited one passed; it goes to the first rule of a later field
\* only when the field's list is used up or a rule of it failed.
C11_OneRuleAtATime ==
  [][/\ \A c \in calls, d \in calls : c.id = d.id => c = d
     /\ \A d \in calls' : d.id > nextId => Awaits(d, 1)
     /\ \A c \in calls, d \in calls' :
          (d.id = c.id /\ <<d.field, d.keys, d.rest>> # <<c.field, c.keys, c.rest>>) =>
            /\ resolve(c)
            /\ IF d.field = c.field /\ d.keys = c.keys
               THEN /\ d.seen = c.seen
                    /\ ~Truthy(c.awaiting)
                    /\ Awaits(d, InFlight(c) + 1)
               ELSE /\ c.op = "validateAll"
                    /\ Truthy(c.awaiting) \/ c.rest = <<>>
                    /\ Awaits(d, 1)
                    /\ \E n \in 1..Len(c.keys) :
                         /\ c.keys[n] = d.field
                         /\ d.keys = SubSeq(c.keys, n + 1, Len(c.keys))
                         /\ \A m \in 1..(n - 1) : d.seen[c.keys[m]] = <<>>]_vars

\* C11 witness: a validateAll call over two fields awaits the second rule
\* of the second field, the first field's one rule having failed.
C11_Witness ==
  \E c \in calls :
    /\ c.op = "validateAll"
    /\ c.field = "b"
    /\ c.seen["a"] = <<"required">>
    /\ c.acc["a"] = "required"
    /\ c.seen["b"] = <<"required", "isEmail">>
    /\ InFlight(c) = 2

\* The first rule a pass over the keys invokes: the first rule of the first
\* key with a non-empty list, if there is one.
FirstRule(vobj, keys) ==
  LET ns == {n \in 1..Len(keys) : Get(vobj, keys[n]) # <<>>}
  IN IF ns = {} THEN <<>>
     ELSE <<Head(Get(vobj, keys[CHOOSE n \in ns : \A m \in ns : n <= m]))>>

\* The rule the suspended call c invokes when the rule it awaits resolves,
\* if it invokes one.
UpcomingRule(c) ==
  IF c.awaiting = Rejected THEN <<>>
  ELSE IF ~Truthy(c.awaiting) /\ c.rest # <<>> THEN <<Head(c.rest)>>
  ELSE IF c.op = "validateAll" THEN FirstRule(ValidatorsOf(c), c.keys)
  ELSE <<>>

\* In this step the call with this id ends by an exception: its promise is
\* rejected, it has no frame left to run a rule from, and the error state
\* and the record of its latest writer are as they were.
Propagates(id) ==
  /\ id \in rejected'
  /\ \A d \in calls' : d.id # id
  /\ errorsState' = errorsState
  /\ lastWrite' = lastWrite

\* C12: a validator that throws or rejects ends the validateAll or
\* validateField call at that point: the call invokes no further rule, it
\* never writes the error state, and the failure leaves the call as a
\* rejection; it is never an entry of the error state.
C12_ExceptionPropagates ==
  [][/\ \A c \in calls :
          (resolve(c) /\ (c.awaiting = Rejected \/ UpcomingRule(c) = <<"throws">>))
            => Propagates(c.id)
     /\ \A f \in Fields :
          (validateField(f) /\ FirstRule(validators, <<f>>) = <<"throws">>)
            => Propagates(nextId')
     /\ (validateAll /\ FirstRule(validators, Keys(validators)) = <<"throws">>)
          => Propagates(nextId')
     /\ lastWrite'.id \notin rejected'
     /\ \A f \in Fields : errorsState'.map[f] \notin {Thrown, Rejected}]_vars

\* C12 witness: validateAll found field b failing, then a's first rule
\* rejected; the call is over, nothing was written and b's failure is not
\* stored.
C12_Witness ==
  /\ nextId = 1
  /\ rejected = {1}
  /\ calls = {}
  /\ nRenders = 0
  /\ Keys(validators) = <<"b", "a">>
  /\ Get(validators, "b") = <<"required">>
  /\ Get(validators, "a") = <<"rejects", "isEmail">>
  /\ ran["b"] = {"required"}
  /\ errorsState = Undefined
  /\ lastWrite = NoWrite

\* The mapping a validateAll run produces from the empty mapping: a message
\* for each field with a failing rule in the list the run read for it, no
\* entry for any other field.
Produced(seen, v) ==
  [f \in Fields |->
     IF Failing(seen[f], v[f]) # {} THEN Expected(seen[f], v[f]) ELSE Absent]

\* C13: validateAll replaces the error state wholesale.  What it writes is
\* what this run produced from the empty mapping over the fields of the
\* registry of its closure; no entry of the previous error state survives.
C13_ValidateAllReplaces ==
  [][/\ \A c \in calls :
          (Completes(c) /\ c.op = "validateAll") =>
            /\ errorsState' = Defined(Produced(Resumed(c).seen, c.value))
            /\ \A f \in Fields :
                 errorsState'.map[f] # Absent => Has(ValidatorsOf(c), f)
     /\ CompletesAtOnce => errorsState' = Defined(EmptyErrors)]_vars

\* C13 witness: validateAll wrote b's message, produced by this run, and
\* left field a, which is not registered, without the entry it had.
C13_Witness ==
  /\ lastWrite.op = "validateAll"
  /\ lastWrite.wiped
  /\ ~Has(validators, "a")
  /\ nRenders = 0
  /\ errorsState = Defined([a |-> Absent, b |-> "required"])

\* In this step a validateField call for field f writes without ever
\* suspending.
FieldCompletesAtOnce(f) ==
  /\ nextId' = nextId + 1
  /\ lastWrite'.op = "validateField"
  /\ lastWrite'.field = f
  /\ lastWrite'.id = nextId'

\* C14: validateField(f) changes only f's entry: when it completes, every
\* other field's entry is what it was in the error state just before the
\* write.
C14_ValidateFieldFrame ==
  [][/\ \A c \in calls :
          (Completes(c) /\ c.op = "validateField") =>
            \A g \in Fields \ {c.field} :
              errorsState'.map[g] = errorsState.map[g]
     /\ \A f \in Fields :
          FieldCompletesAtOnce(f) =>
            \A g \in Fields \ {f} : errorsState'.map[g] = errorsState.map[g]]_vars

\* C15: validateField(f) always writes an entry for f: false when f has no
\* registered rules, an empty rule list, or only passing rules (else the
\* message of its first failing rule).
C15_ValidateFieldAlwaysWrites ==
  [][/\ \A c \in calls :
          (Completes(c) /\ c.op = "validateField") =>
            /\ errorsState'.map[c.field] # Absent
            /\ errorsState'.map[c.field] = Expected(c.seen[c.field], c.value[c.field])
            /\ Failing(c.seen[c.field], c.value[c.field]) = {} =>
                 errorsState'.map[c.field] = False
     /\ \A f \in Fields :
          FieldCompletesAtOnce(f) =>
            /\ Get(validators, f) = <<>>
            /\ errorsState'.map[f] = False]_vars

\* C15 witness: validateField('a') ran in a form where no field was ever
\* registered and recorded a: false.
C15_Witness ==
  /\ lastWrite.op = "validateField"
  /\ lastWrite.field = "a"
  /\ nAdds = 0
  /\ nRenders = 0
  /\ errorsState.map["a"] = False

\* The call with this id is suspended at an await.
Running(id) == \E c \in calls : c.id = id

\* What the suspended call c has left to do: the keys not yet visited and
\* the rules not yet invoked of the current list.
Measure(c) == <<Len(c.keys), Len(c.rest)>>
Less(m, n) == m[1] < n[1] \/ (m[1] = n[1] /\ m[2] < n[2])

\* C16: termination.  When every invoked rule resolves, every validateAll
\* and validateField call that was started completes: again and again no
\* call is left suspended (a call that never completed would stay in calls
\* for ever).  A call writes the error state once, in the step in which it
\* ends, and on its way it passes once over the keys and the rule lists:
\* each of its steps leaves fewer keys, or fewer rules of the current list,
\* to visit.
C16_Terminates ==
  /\ []<>(calls = {})
  /\ [][/\ \A c \in calls :
            /\ Ends(c) => (lastWrite'.id = c.id /\ lastWrite.id # c.id)
            /\ \A d \in calls' :
                 d.id = c.id => (Measure(d) = Measure(c) \/ Less(Measure(d), Measure(c)))
            /\ lastWrite'.id = c.id => (lastWrite.id = c.id \/ Ends(c))
         /\ nextId' \in {nextId, nextId + 1}
         /\ \A d \in calls' : d.id <= nextId'
         /\ lastWrite'.id # lastWrite.id =>
              \/ lastWrite'.id = 0
              \/ Running(lastWrite'.id)
              \/ lastWrite'.id = nextId + 1 /\ nextId' = nextId + 1]_vars

\* C16 witness: the one validateAll call, over two fields with three rules
\* all of which it ran (a's rule failed, b's second rule failed), has ended
\* and its write is the latest.
C16_Witness ==
  /\ lastWrite.op = "validateAll"
  /\ lastWrite.id = 1
  /\ calls = {}
  /\ nextId = 1
  /\ nAdds = 2
  /\ nRenders = 0
  /\ Get(validators, "a") = <<"required">>
  /\ Get(validators, "b") = <<"required", "isEmail">>
  /\ value = [a |-> "", b |-> "bad"]
  /\ ran = [a |-> {"required"}, b |-> {"email"}]
  /\ errorsState = Defined([a |-> "required", b |-> "email"])
====
